---- MODULE Spec2Model ----
(***************************************************************************)
(* Model of app.py, the Streamlit budgeting page.                          *)
(*                                                                         *)
(* Streamlit runs the whole script once when the session opens and once    *)
(* more for every interaction (a changed widget value or a pressed         *)
(* button).  One such run is a refresh pass; each action below is one      *)
(* pass, started by one interaction, and runs the script from its first    *)
(* line to its last.  What survives between passes is the widget values    *)
(* and st.session_state; everything else is recomputed by the pass.        *)
(***************************************************************************)
EXTENDS Integers, Sequences, FiniteSets, TLC

\* Bounds of the exploration.
MaxBudget == 5
MaxGoal == 1
MaxAmount == 2
MaxPasses == 4

\* The two options of the radio at line 46; the first one is the default.
Monthly == "Monthly Budgeting"
Semester == "Semester Budgeting"
ModeOptions == <<Monthly, Semester>>

\* The keys of the dict `categories`, in insertion order (lines 56-66, 73-84).
categories(m) ==
    IF m = Monthly
    THEN <<"Food", "Transport", "Rent/Hostel", "Study Materials",
           "Internet/Phone", "Entertainment & Outings", "Health & Fitness",
           "Clubs/Events", "Others">>
    ELSE <<"Tuition Fees", "Hostel/PG Rent", "Study Materials", "Transport",
           "College Events/Fests", "Trips & Excursions", "Health & Insurance",
           "Internet & Utilities", "Food & Daily Expenses", "Others">>

Range(s) == {s[i] : i \in 1..Len(s)}

\* Values datetime.date.today() may return at a Save (line 158).
Dates == {"2025-01-31", "2025-02-01"}

\* Module-level `model` (lines 11-15): None when the secret is absent.
NoModel == "None"
GenerativeModel == "gemini-1.5-flash"

\* What model.generate_content does once the request has been sent.
ServiceOutcomes == {"text", "error"}

VARIABLES
    model,           \* lines 11-15
    mode,            \* line 46
    budget,          \* lines 53 / 70
    goal,            \* lines 54 / 71
    expenses,        \* lines 90-94: category label -> amount
    total_expenses,  \* line 96
    remaining,       \* line 97
    info,            \* lines 111-117: the st.info lines of the pass
    banner,          \* lines 122-127: the status banners of the pass
    session_state,   \* st.session_state (only the key "history" is used)
    export,          \* lines 166-172: table and download of the pass
    tips,            \* lines 178-184: what the tips block displayed
    requests,        \* generate_content requests sent during the pass
    footer,          \* lines 185-187 reached: the pass ran to its end
    trigger,         \* the interaction that started the pass
    passes           \* refresh passes run in this session

vars == <<model, mode, budget, goal, expenses, total_expenses, remaining,
          info, banner, session_state, export, tips, requests, footer,
          trigger, passes>>

----------------------------------------------------------------------------
\* Variant: a number widget created without min_value.
number_input_unchecked(min_value, current, typed) == typed

\* st.number_input(min_value=...): the widget keeps its current value when
\* the typed one is below min_value.
number_input(min_value, current, typed) ==
    IF typed < min_value THEN current ELSE typed

\* sum(expenses.values()): fold over the values in dict order.
RECURSIVE SumValues(_, _)
SumValues(e, keys) ==
    IF keys = <<>> THEN 0
    ELSE e[Head(keys)] + SumValues(e, Tail(keys))

\* Variant: the fold stops one key short.
sum_values_skips_last(e, m) ==
    SumValues(e, SubSeq(categories(m), 1, Len(categories(m)) - 1))

sum_values(e, m) == SumValues(e, categories(m))

\* budget / months, as printed by the :.2f format: the number of
\* hundredths nearest to the quotient.  (n/30 and n/6 are never half-way
\* between two hundredths for an integer n, and the double quotient is
\* within 1e-12 of the exact one, so the printed digits are those of the
\* exact quotient rounded to nearest.)
Fmt2(n, d) == (200 * n + d) \div (2 * d)

\* Variant: the gate is budget >= 0.
insights_ungated(m, b) ==
    IF m = Monthly /\ b >= 0
    THEN <<[label |-> "daily spending allowance", hundredths |-> Fmt2(b, 30)]>>
    ELSE IF m = Semester /\ b >= 0
    THEN <<[label |-> "Equivalent Monthly Budget", hundredths |-> Fmt2(b, 6)]>>
    ELSE <<>>

\* Lines 111-117.
insights(m, b) ==
    IF m = Monthly /\ b > 0
    THEN <<[label |-> "daily spending allowance", hundredths |-> Fmt2(b, 30)]>>
    ELSE IF m = Semester /\ b > 0
    THEN <<[label |-> "Equivalent Monthly Budget", hundredths |-> Fmt2(b, 6)]>>
    ELSE <<>>

\* budget * 0.2 in double arithmetic.  0.2 is the double (2^54 + 1)/(5 * 2^54),
\* so the exact product is (b/5)(1 + 2^-54), which rounds to b/5 itself when
\* 5 divides b and to a double strictly between b \div 5 and b \div 5 + 1
\* otherwise (for 0 <= b < 2^52).  The product is kept as its integer part
\* and whether it has a fraction.
times_0_2(b) == [floor |-> b \div 5, fraction |-> (b % 5) # 0]

\* int < float
int_lt_float(r, x) == r < x.floor \/ (r = x.floor /\ x.fraction)

\* Variant: the near-limit test is remaining <= budget * 0.2.
warnings_inclusive(r, b) ==
    IF r < 0 THEN <<"error">>
    ELSE IF r <= times_0_2(b).floor THEN <<"warning">>
    ELSE <<"success">>

\* Lines 122-127: the banners emitted, in order.
warnings(r, b) ==
    IF r < 0 THEN <<"error">>
    ELSE IF int_lt_float(r, times_0_2(b)) THEN <<"warning">>
    ELSE <<"success">>

----------------------------------------------------------------------------
\* st.session_state as a mapping from key to value.
EmptyState == [k \in {} |-> <<>>]

HasHistory(ss) == "history" \in DOMAIN ss

\* Variant: the list is assigned without the `not in` test.
init_history_always(ss) == [k \in {"history"} |-> <<>>]

\* Lines 153-154.
init_history(ss) ==
    IF ~HasHistory(ss) THEN [k \in {"history"} |-> <<>>] ELSE ss

\* Variant: the record replaces the list instead of being appended.
save_handler_overwrites(ss, pressed, date, m, b, t, r, g) ==
    IF pressed
    THEN [k \in {"history"} |->
            <<[Date |-> date, Mode |-> m, Budget |-> b, Expenses |-> t,
               Remaining |-> r, Goal |-> g]>>]
    ELSE ss

\* Lines 156-164.
save_handler(ss, pressed, date, m, b, t, r, g) ==
    IF pressed
    THEN [k \in {"history"} |->
            Append(ss["history"],
                   [Date |-> date, Mode |-> m, Budget |-> b, Expenses |-> t,
                    Remaining |-> r, Goal |-> g])]
    ELSE ss

\* pd.DataFrame(list of dicts): columns in key order, one row per dict.
Columns == <<"Date", "Mode", "Budget", "Expenses", "Remaining", "Goal">>

Row(rec) == [c \in 1..Len(Columns) |-> rec[Columns[c]]]

\* history_df.to_csv(index=False): header row, then the rows.
to_csv(hist) == <<Columns>> \o [i \in 1..Len(hist) |-> Row(hist[i])]

\* Variant: the test is len(history) > 1.
history_export_late(hist) ==
    IF Len(hist) > 1
    THEN [offered |-> TRUE,
          table |-> [i \in 1..Len(hist) |-> Row(hist[i])],
          file_name |-> "expenses.csv",
          csv |-> to_csv(hist)]
    ELSE [offered |-> FALSE, table |-> <<>>, file_name |-> "", csv |-> <<>>]

\* Lines 166-172.
history_export(hist) ==
    IF Len(hist) > 0
    THEN [offered |-> TRUE,
          table |-> [i \in 1..Len(hist) |-> Row(hist[i])],
          file_name |-> "expenses.csv",
          csv |-> to_csv(hist)]
    ELSE [offered |-> FALSE, table |-> <<>>, file_name |-> "", csv |-> <<>>]

----------------------------------------------------------------------------
\* Variant: the request is sent whether or not a model was configured.
get_ai_tips_unguarded(mdl, svc) ==
    IF mdl # NoModel /\ svc = "text"
    THEN [requests |-> 1, raised |-> "", text |-> "tips"]
    ELSE [requests |-> 1, raised |-> "ServiceError", text |-> ""]

\* get_ai_tips (lines 17-33).  With model = None the attribute lookup
\* model.generate_content raises before anything is sent.
get_ai_tips(mdl, svc) ==
    IF mdl = NoModel
    THEN [requests |-> 0, raised |-> "AttributeError", text |-> ""]
    ELSE IF svc = "text"
    THEN [requests |-> 1, raised |-> "", text |-> "tips"]
    ELSE [requests |-> 1, raised |-> "ServiceError", text |-> ""]

\* Variant: no try/except around the call.
tips_handler_uncaught(pressed, mdl, svc) ==
    IF ~pressed
    THEN [shown |-> <<>>, requests |-> 0, escaped |-> FALSE]
    ELSE LET r == get_ai_tips(mdl, svc) IN
         IF r.raised = ""
         THEN [shown |-> <<[kind |-> "success", body |-> r.text]>>,
               requests |-> r.requests, escaped |-> FALSE]
         ELSE [shown |-> <<>>, requests |-> r.requests, escaped |-> TRUE]

\* Variant: the except branch calls get_ai_tips once more.
tips_handler_retries(pressed, mdl, svc) ==
    IF ~pressed
    THEN [shown |-> <<>>, requests |-> 0, escaped |-> FALSE]
    ELSE LET r == get_ai_tips(mdl, svc) IN
         IF r.raised = ""
         THEN [shown |-> <<[kind |-> "success", body |-> r.text]>>,
               requests |-> r.requests, escaped |-> FALSE]
         ELSE [shown |-> <<[kind |-> "warning", body |-> "Unable to fetch AI tips"],
                          [kind |-> "error", body |-> r.raised]>>,
               requests |-> 2 * r.requests, escaped |-> FALSE]

\* Lines 178-184.  `escaped` is TRUE when an exception leaves the block.
tips_handler(pressed, mdl, svc) ==
    IF ~pressed
    THEN [shown |-> <<>>, requests |-> 0, escaped |-> FALSE]
    ELSE LET r == get_ai_tips(mdl, svc) IN
         IF r.raised = ""
         THEN [shown |-> <<[kind |-> "success", body |-> r.text]>>,
               requests |-> r.requests, escaped |-> FALSE]
         ELSE [shown |-> <<[kind |-> "warning", body |-> "Unable to fetch AI tips"],
                          [kind |-> "error", body |-> r.raised]>>,
               requests |-> r.requests, escaped |-> FALSE]

----------------------------------------------------------------------------
\* One run of the script with the widget values m, b, g, e, the two button
\* results, today's date and the outcome of the service call (if made).
Rerun(m, b, g, e, save, ask, date, svc, why) ==
    LET t == sum_values(e, m)
        r == b - t
        ss == save_handler(init_history(session_state), save, date, m, b, t, r, g)
        th == tips_handler(ask, model, svc)
    IN /\ mode' = m
       /\ budget' = b
       /\ goal' = g
       /\ expenses' = e
       /\ total_expenses' = t
       /\ remaining' = r
       /\ info' = insights(m, b)
       /\ banner' = warnings(r, b)
       /\ session_state' = ss
       /\ export' = history_export(ss["history"])
       /\ tips' = th.shown
       /\ requests' = th.requests
       /\ footer' = ~th.escaped
       /\ trigger' = why
       /\ passes' = passes + 1
       /\ UNCHANGED model

\* A number widget that has not been touched holds its min_value.
Untouched(m) == [c \in Range(categories(m)) |-> 0]

AnyDate == CHOOSE d \in Dates : TRUE

Init ==
    /\ model \in {NoModel, GenerativeModel}
    /\ mode = ModeOptions[1]
    /\ budget = 0
    /\ goal = 0
    /\ expenses = Untouched(ModeOptions[1])
    /\ total_expenses = 0
    /\ remaining = 0
    /\ info = <<>>
    /\ banner = <<>>
    /\ session_state = EmptyState
    /\ export = [offered |-> FALSE, table |-> <<>>, file_name |-> "", csv |-> <<>>]
    /\ tips = <<>>
    /\ requests = 0
    /\ footer = FALSE
    /\ trigger = "none"
    /\ passes = 0

\* The first run, when the page is opened.
Open ==
    /\ passes = 0
    /\ Rerun(mode, budget, goal, expenses, FALSE, FALSE, AnyDate, "text", "open")

Rendered == passes > 0 /\ passes < MaxPasses

\* The radio is changed.  The other mode's widgets have other labels and
\* keys (cat+mode), so they are new widgets holding their defaults;
\* Streamlit drops the values of widgets a run did not render.
ChooseMode ==
    /\ Rendered
    /\ \E i \in 1..Len(ModeOptions) :
          /\ ModeOptions[i] # mode
          /\ Rerun(ModeOptions[i], 0, 0, Untouched(ModeOptions[i]),
                   FALSE, FALSE, AnyDate, "text", "mode")

SetBudget ==
    /\ Rendered
    /\ \E typed \in -1..MaxBudget :
          LET b == number_input(0, budget, typed) IN
          /\ b # budget
          /\ Rerun(mode, b, goal, expenses, FALSE, FALSE, AnyDate, "text", "budget")

SetGoal ==
    /\ Rendered
    /\ \E typed \in -1..MaxGoal :
          LET g == number_input(0, goal, typed) IN
          /\ g # goal
          /\ Rerun(mode, budget, g, expenses, FALSE, FALSE, AnyDate, "text", "goal")

SetAmount ==
    /\ Rendered
    /\ \E cat \in DOMAIN expenses, typed \in -1..MaxAmount :
          LET a == number_input(0, expenses[cat], typed) IN
          /\ a # expenses[cat]
          /\ Rerun(mode, budget, goal, [expenses EXCEPT ![cat] = a],
                   FALSE, FALSE, AnyDate, "text", "amount")

PressSave ==
    /\ Rendered
    /\ \E date \in Dates :
          Rerun(mode, budget, goal, expenses, TRUE, FALSE, date, "text", "save")

PressTips ==
    /\ Rendered
    /\ \E svc \in ServiceOutcomes :
          Rerun(mode, budget, goal, expenses, FALSE, TRUE, AnyDate, svc, "tips")

Next ==
    \/ Open
    \/ ChooseMode
    \/ SetBudget
    \/ SetGoal
    \/ SetAmount
    \/ PressSave
    \/ PressTips

Spec == Init /\ [][Next]_vars

History == IF HasHistory(session_state) THEN session_state["history"] ELSE <<>>

----------------------------------------------------------------------------
\* Definitions used to state the properties.

Shown == passes > 0

Labels(m) == Range(categories(m))

\* Sum of e over a set of keys, in no particular order.
RECURSIVE SumOver(_, _)
SumOver(e, S) ==
    IF S = {} THEN 0
    ELSE LET c == CHOOSE x \in S : TRUE IN e[c] + SumOver(e, S \ {c})

\* The summary a pass displays and the log it leaves.
Summary == <<mode, budget, goal, expenses, total_expenses, remaining, info,
             banner, session_state, export>>

TipsFailed ==
    trigger = "tips" /\ ~(\E i \in 1..Len(tips) : tips[i].kind = "success")

WarningPath ==
    /\ Len(tips) = 2
    /\ tips[1].kind = "warning"
    /\ tips[2].kind = "error"
    /\ tips[2].body # ""

Snapshot(d) ==
    [Date |-> d, Mode |-> mode, Budget |-> budget, Expenses |-> total_expenses,
     Remaining |-> remaining, Goal |-> goal]

IsPrefix(s, t) == Len(s) <= Len(t) /\ \A i \in 1..Len(s) : s[i] = t[i]

----------------------------------------------------------------------------
\* C1: after every refresh pass, whatever the mode and the amounts,
\* total_expenses is the sum of the amounts of exactly the categories of the
\* active mode (0 when all are 0), and remaining is budget - total_expenses,
\* negative when the total exceeds the budget.
C1_TotalAndRemaining ==
    Shown =>
        /\ DOMAIN expenses = Labels(mode)
        /\ total_expenses = SumOver(expenses, Labels(mode))
        /\ ((\A c \in Labels(mode) : expenses[c] = 0) => total_expenses = 0)
        /\ remaining = budget - total_expenses
        /\ (total_expenses > budget => remaining < 0)

C1_Witness ==
    /\ Shown
    /\ mode = Semester
    /\ expenses["Others"] > 0
    /\ total_expenses > budget
    /\ remaining < 0

\* C2: every pass produces exactly one status banner: Exceeded (error) when
\* remaining < 0, NearLimit (warning) when 0 <= remaining < budget/5, OnTrack
\* (success) otherwise; remaining = budget/5 is OnTrack, and so is budget 0
\* with remaining 0.
C2_StatusBanner ==
    Shown =>
        /\ Len(banner) = 1
        /\ (remaining < 0 => banner[1] = "error")
        /\ (remaining >= 0 /\ 5 * remaining < budget => banner[1] = "warning")
        /\ (remaining >= 0 /\ 5 * remaining >= budget => banner[1] = "success")
        /\ (5 * remaining = budget => banner[1] = "success")

C2_Witness ==
    /\ Shown
    /\ budget = 5
    /\ total_expenses = 4
    /\ remaining = 1
    /\ banner = <<"success">>

\* C3: a pass started by Save appends exactly one record, holding the mode,
\* budget, total, remaining and goal of that pass, to the end of the history;
\* every pass keeps the earlier records as they were, in order, and only a
\* Save pass lengthens the history (so n presses leave n records).
C3_SaveAppendsSnapshot ==
    [][ /\ (trigger' = "save" =>
               \E d \in Dates : History' = Append(History, Snapshot(d)'))
        /\ IsPrefix(History, History')
        /\ (Len(History') = Len(History) + 1 <=> trigger' = "save") ]_vars

C3_Witness ==
    /\ trigger = "save"
    /\ Len(History) = 2
    /\ History[1].Budget # History[2].Budget
    /\ History[2].Budget = budget

\* C4: when the advice call raises, the error is caught and shown as a
\* warning followed by the error detail, the pass runs to its end, the
\* summary, status and history are those of the pass before the press, and
\* the page still accepts input changes, Save and Get AI Tips.
C4_TipsFailureContained ==
    /\ [](TipsFailed =>
            /\ WarningPath
            /\ footer
            /\ (passes < MaxPasses =>
                  /\ ENABLED SetBudget
                  /\ ENABLED SetAmount
                  /\ ENABLED PressSave
                  /\ ENABLED PressTips))
    /\ [][TipsFailed' => Summary' = Summary]_vars

C4_Witness ==
    /\ TipsFailed
    /\ model = GenerativeModel
    /\ tips[2].body = "ServiceError"
    /\ Len(History) = 1
    /\ footer

\* C5: without a configured credential every press of Get AI Tips fails
\* with no request sent to the service, and is reported by the same warning
\* and error detail as a failed request.
C5_NoCredentialNoRequest ==
    (model = NoModel /\ trigger = "tips") =>
        /\ requests = 0
        /\ TipsFailed
        /\ WarningPath

C5_Witness ==
    /\ model = NoModel
    /\ trigger = "tips"
    /\ requests = 0
    /\ WarningPath

\* C6: a pass started by Get AI Tips sends at most one request, whether it
\* succeeds or fails; any other pass sends none.
C6_AtMostOneRequest ==
    /\ requests <= 1
    /\ (trigger # "tips" => requests = 0)

C6_Witness ==
    /\ trigger = "tips"
    /\ requests = 1
    /\ TipsFailed

\* C7: a pass offers the history table and the expenses.csv download exactly
\* when the history is non-empty at that point of the pass (the first Save
\* pass included); the table has one row per snapshot in append order, under
\* the columns Date, Mode, Budget, Expenses, Remaining, Goal.
C7_ExportIffHistory ==
    Shown =>
        /\ (export.offered <=> Len(History) > 0)
        /\ (export.offered =>
              /\ export.file_name = "expenses.csv"
              /\ Len(export.table) = Len(History)
              /\ Len(export.csv) = Len(History) + 1
              /\ export.csv[1] = <<"Date", "Mode", "Budget", "Expenses",
                                   "Remaining", "Goal">>
              /\ \A i \in 1..Len(History) :
                    LET h == History[i]
                        row == <<h.Date, h.Mode, h.Budget, h.Expenses,
                                 h.Remaining, h.Goal>>
                    IN export.table[i] = row /\ export.csv[i + 1] = row)

C7_Witness ==
    /\ trigger = "save"
    /\ Len(History) = 1
    /\ export.offered
    /\ Len(export.csv) = 2

\* C8: no negative amount reaches the calculation: budget, goal and every
\* category amount are >= 0, so total_expenses >= 0 and remaining <= budget,
\* in every state and in every saved record.
C8_NoNegativeAmounts ==
    /\ budget >= 0
    /\ goal >= 0
    /\ \A c \in DOMAIN expenses : expenses[c] >= 0
    /\ total_expenses >= 0
    /\ remaining <= budget
    /\ \A i \in 1..Len(History) :
          /\ History[i].Budget >= 0
          /\ History[i].Goal >= 0
          /\ History[i].Expenses >= 0
          /\ History[i].Remaining <= History[i].Budget

C8_Witness ==
    /\ Len(History) = 1
    /\ History[1].Budget > 0
    /\ History[1].Expenses > 0
    /\ History[1].Remaining < History[1].Budget

\* C9: the equivalent line is shown exactly when budget > 0, and then shows
\* budget / 30 in Monthly mode and budget / 6 in Semester mode, to the
\* nearest hundredth.
C9_EquivalentLine ==
    Shown =>
        /\ (Len(info) = 1 <=> budget > 0)
        /\ (Len(info) = 0 <=> budget = 0)
        /\ (budget > 0 =>
              LET d == IF mode = Monthly THEN 30 ELSE 6
                  h == info[1].hundredths
              IN /\ 2 * (d * h - 100 * budget) <= d
                 /\ 2 * (100 * budget - d * h) <= d
                 /\ info[1].label = IF mode = Monthly
                                    THEN "daily spending allowance"
                                    ELSE "Equivalent Monthly Budget")

C9_Witness ==
    /\ mode = Semester
    /\ budget = 5
    /\ Len(info) = 1
    /\ info[1].hundredths = 83

\* C10: the history changes only through Save: a pass not started by Save
\* leaves it as it was, it is created empty by the first pass and never
\* created again, and its length never decreases.
C10_HistoryOnlyBySave ==
    [][ /\ (HasHistory(session_state) /\ trigger' # "save"
               => session_state' = session_state)
        /\ (HasHistory(session_state)
               => HasHistory(session_state') /\ Len(History') >= Len(History))
        /\ (~HasHistory(session_state)
               => trigger' = "open" /\ HasHistory(session_state')
                  /\ History' = <<>>) ]_vars

C10_Witness ==
    /\ trigger \in {"mode", "budget", "goal", "amount", "tips"}
    /\ Len(History) = 2

====
